---- MODULE Spec2Model ----
(***************************************************************************)
(* figma-icons-sync: the reconciliation engine of src/src/sync.js.         *)
(*                                                                         *)
(* State: the Figma frame (the remote components, in document order), the  *)
(* output directory (path -> bytes), the inventory file _icons.json, and   *)
(* the position and working data of one extractIcons call.                 *)
(*                                                                         *)
(* One extractIcons call is the sequence                                   *)
(*   StartRun -> Download -> ResolveIcon* -> Persist                       *)
(* (Download is skipped when the download list is empty); between calls    *)
(* the designer edits the remote frame and the user edits the directory.   *)
(* A run is rejected when a request to Figma fails (StartRun, DownloadFails)*)
(* or when the inventory file cannot be parsed (StartRun).                 *)
(***************************************************************************)
EXTENDS Naturals, Sequences, FiniteSets, TLC

(***************************************************************************)
(* Bounds of the model.                                                    *)
(***************************************************************************)
MaxRuns == 3
MaxEdits == 3

Ids == {"N1", "N2"}
Names == {"a", "b", "s/t"}
Hashes == {"h1", "h2"}

(***************************************************************************)
(* Bytes.  The content fetch is an external collaborator: the export of a  *)
(* component is determined by its design, of which hash is the digest.     *)
(***************************************************************************)
NoFile == "NoFile"
Foreign == "foreign"
Undefined == "undefined"

SvgOf(hash) == IF hash = "h1" THEN "svg1" ELSE "svg2"

Contents == {SvgOf(h) : h \in Hashes} \cup {Foreign}

\* the bytes of the files the user puts into the directory
UserBytes == {Foreign}

(***************************************************************************)
(* Paths below outputDirectory.                                            *)
(***************************************************************************)
\* outputDirectory + name + '.svg'
FilePath(name) == name \o ".svg"

\* name.split('/').join('_'), over the names of the model
JoinUnderscore(name) == IF name = "s/t" THEN "s_t" ELSE name

AllPaths == {FilePath(n) : n \in Names} \cup {FilePath(JoinUnderscore(n)) : n \in Names}

VARIABLES
    remote,            \* the components of the Figma frame: <<[nodeId, name, hash]>>
    files,             \* the output directory: [AllPaths -> Contents \cup {NoFile}]
    db,                \* _icons.json: [state, icons: <<[nodeId, name, previousNames, hash]>>]
    legacy,            \* _icons.js, the store of the versions before 1.1.0
    ignoreSubfolders,  \* option of the run
    pc,                \* position of extractIcons
    forceReload,       \* argument of the running extractIcons
    changelog,         \* consolidateChanges' result
    iconsContents,     \* the working list of extractIcons
    deleted,           \* indices removed from iconsContents with delete
    downloadList,      \* added ++ modified ++ restored
    idx,               \* position of the resolution loop
    warned,            \* what warn printed, in order
    thrown,            \* the error extractIcons rejected with
    eventsList,        \* IconsSync.eventsList
    output,            \* the value extractIcons returned
    db0,               \* _icons.json as the run's consolidateChanges found it
    dbPrior,           \* _icons.json when extractIcons was called
    stderr,            \* the error the command line printed for the run
    exitCode,          \* the exit status of the command line process of the run
    files0,            \* the output directory when the run started
    remote0,           \* the components the run fetched
    renames,           \* <<nodeId, recorded name, remote name>> of the last run, if it completed
    prevRun,           \* the run before this one: its renames, the item whose rename collided,
                       \* and its output and advisories if nothing happened since
    nRuns,
    nEdits,
    frameContents,     \* the children of the Figma frame, as getFigmaFrameContents returns them
    discovered         \* what findComponentsRecursively returned for frameContents

vars == <<remote, files, db, legacy, ignoreSubfolders, pc, forceReload, changelog,
          iconsContents, deleted, downloadList, idx, warned, thrown, eventsList,
          output, db0, dbPrior, stderr, exitCode, files0, remote0, renames, prevRun,
          nRuns, nEdits, frameContents, discovered>>

(***************************************************************************)
(* Sequence helpers (Array.prototype).                                     *)
(***************************************************************************)
Includes(s, v) == \E i \in 1..Len(s) : s[i] = v

RECURSIVE Filter(_, _)
\* s.filter(v => v \in keep)
Filter(s, keep) ==
    IF s = <<>> THEN <<>>
    ELSE IF Head(s) \in keep THEN <<Head(s)>> \o Filter(Tail(s), keep)
         ELSE Filter(Tail(s), keep)

\* list.find(({ nodeId }) => nodeId === id): the index of the first match, 0 for undefined
FindNode(list, id) ==
    IF \E i \in 1..Len(list) : list[i].nodeId = id
    THEN CHOOSE i \in 1..Len(list) :
            /\ list[i].nodeId = id
            /\ \A j \in 1..(i - 1) : list[j].nodeId # id
    ELSE 0

(***************************************************************************)
(* The filesystem.                                                         *)
(***************************************************************************)
\* fs.existsSync(this.outputDirectory + name + '.svg')
ExistsSync(fs, name) == fs[FilePath(name)] # NoFile

\* getContents: the bytes of the file, false when it does not exist
GetContents(fs, name) == IF ExistsSync(fs, name) THEN fs[FilePath(name)] ELSE "false"

\* the path saveIcon writes a name to
SavePath(name, flat) == IF flat THEN FilePath(JoinUnderscore(name)) ELSE FilePath(name)

\* mutant: only the first name of the list is written
WriteNamesFirstOnly(fs, names, svg, flat) ==
    IF names = <<>> THEN fs
    ELSE [fs EXCEPT ![SavePath(Head(names), flat)] = svg]

RECURSIVE WriteNames(_, _, _, _)
WriteNames(fs, names, svg, flat) ==
    IF names = <<>> THEN fs
    ELSE WriteNames([fs EXCEPT ![SavePath(Head(names), flat)] = svg], Tail(names), svg, flat)

\* mutant: the icon is moved to its name, the files of its previous names are removed
SaveIconMoves(fs, icon, saveUnderPreviousNames, flat) ==
    LET written == WriteNames(fs, <<icon.name>>, icon.svg, flat)
    IN  [p \in DOMAIN written |->
            IF \E k \in 1..Len(icon.previousNames) :
                    /\ SavePath(icon.previousNames[k], flat) = p
                    /\ icon.previousNames[k] # icon.name
            THEN NoFile ELSE written[p]]

\* saveIcon(icon, saveUnderPreviousNames)
SaveIcon(fs, icon, saveUnderPreviousNames, flat) ==
    WriteNames(fs,
               IF saveUnderPreviousNames THEN <<icon.name>> \o icon.previousNames
               ELSE <<icon.name>>,
               icon.svg, flat)

(***************************************************************************)
(* consolidateChanges.                                                     *)
(***************************************************************************)
EmptyChangelog ==
    [unmodified |-> <<>>, modified |-> <<>>, added |-> <<>>, restored |-> <<>>, removed |-> <<>>]

\* format(icon) of a remote component
FormatRemote(c) ==
    [nodeId |-> c.nodeId, name |-> c.name, previousNames |-> <<>>,
     isRenamed |-> FALSE, hash |-> c.hash]

\* mutant: the previous names of a record are not read
FormatLocalFresh(r) ==
    [nodeId |-> r.nodeId, name |-> r.name, previousNames |-> <<>>,
     isRenamed |-> FALSE, hash |-> r.hash]

\* format(icon) of a record of _icons.json
FormatLocal(r) ==
    [nodeId |-> r.nodeId, name |-> r.name,
     previousNames |-> IF "previousNames" \in DOMAIN r THEN r.previousNames ELSE <<>>,
     isRenamed |-> FALSE, hash |-> r.hash]

\* the body of the loop over remoteIcons for an icon that has a local record
MergeLocal(remoteIcon, localIcon) ==
    LET renamed == localIcon.name # remoteIcon.name
        pn == IF renamed /\ ~Includes(localIcon.previousNames, localIcon.name)
              THEN Append(localIcon.previousNames, localIcon.name)
              ELSE localIcon.previousNames
    IN  [remoteIcon EXCEPT !.previousNames = pn, !.isRenamed = renamed]

\* mutant: equal hashes are trusted without a look at the file
CategoryOfTrustsHash(remoteIcon, localIcon, fs) ==
    IF remoteIcon.hash = localIcon.hash
    THEN "unmodified"
    ELSE IF ExistsSync(fs, localIcon.name) THEN "modified" ELSE "restored"

\* mutant: a changed icon whose file is missing is reported modified
CategoryOfNoRestore(remoteIcon, localIcon, fs) ==
    IF remoteIcon.hash = localIcon.hash
    THEN IF ExistsSync(fs, localIcon.name) THEN "unmodified" ELSE "restored"
    ELSE "modified"

\* the category of a remote icon that has a local record
CategoryOf(remoteIcon, localIcon, fs) ==
    IF remoteIcon.hash = localIcon.hash
    THEN IF ExistsSync(fs, localIcon.name) THEN "unmodified" ELSE "restored"
    ELSE IF ExistsSync(fs, localIcon.name) THEN "modified" ELSE "restored"

RECURSIVE ClassifyRemoteAfterAdded(_, _, _, _)
\* mutant: once an icon was added, the icons after it are not looked up
ClassifyRemoteAfterAdded(remoteIcons, localIcons, fs, acc) ==
    IF remoteIcons = <<>> THEN acc
    ELSE LET remoteIcon == Head(remoteIcons)
             i == IF acc.added # <<>> THEN 0 ELSE FindNode(localIcons, remoteIcon.nodeId)
             next ==
                IF i = 0
                THEN [acc EXCEPT !.added = Append(@, remoteIcon)]
                ELSE LET icon == MergeLocal(remoteIcon, localIcons[i])
                         cat == CategoryOf(remoteIcon, localIcons[i], fs)
                     IN  [acc EXCEPT ![cat] = Append(@, icon)]
         IN  ClassifyRemoteAfterAdded(Tail(remoteIcons), localIcons, fs, next)

RECURSIVE ClassifyRemote(_, _, _, _)
ClassifyRemote(remoteIcons, localIcons, fs, acc) ==
    IF remoteIcons = <<>> THEN acc
    ELSE LET remoteIcon == Head(remoteIcons)
             i == FindNode(localIcons, remoteIcon.nodeId)
             next ==
                IF i = 0
                THEN [acc EXCEPT !.added = Append(@, remoteIcon)]
                ELSE LET icon == MergeLocal(remoteIcon, localIcons[i])
                         cat == CategoryOf(remoteIcon, localIcons[i], fs)
                     IN  [acc EXCEPT ![cat] = Append(@, icon)]
         IN  ClassifyRemote(Tail(remoteIcons), localIcons, fs, next)

RECURSIVE RemovedIconsUnfiltered(_, _, _)
\* mutant: the filter on the existence of the file is left out
RemovedIconsUnfiltered(localIcons, remoteIcons, fs) ==
    IF localIcons = <<>> THEN <<>>
    ELSE IF FindNode(remoteIcons, Head(localIcons).nodeId) = 0
         THEN <<Head(localIcons)>> \o RemovedIconsUnfiltered(Tail(localIcons), remoteIcons, fs)
         ELSE RemovedIconsUnfiltered(Tail(localIcons), remoteIcons, fs)

\* mutant: removed icons are not detected
RemovedIconsNone(localIcons, remoteIcons, fs) == <<>>

RECURSIVE RemovedIconsOfAll(_, _, _)
\* mutant: the filter on the absence of a remote icon is left out
RemovedIconsOfAll(localIcons, remoteIcons, fs) ==
    IF localIcons = <<>> THEN <<>>
    ELSE IF ExistsSync(fs, Head(localIcons).name)
         THEN <<Head(localIcons)>> \o RemovedIconsOfAll(Tail(localIcons), remoteIcons, fs)
         ELSE RemovedIconsOfAll(Tail(localIcons), remoteIcons, fs)

RECURSIVE RemovedIcons(_, _, _)
RemovedIcons(localIcons, remoteIcons, fs) ==
    IF localIcons = <<>> THEN <<>>
    ELSE LET icon == Head(localIcons)
             rest == RemovedIcons(Tail(localIcons), remoteIcons, fs)
         IN  IF FindNode(remoteIcons, icon.nodeId) = 0 /\ ExistsSync(fs, icon.name)
             THEN <<icon>> \o rest
             ELSE rest

MapSeq(s, Op(_)) == [i \in 1..Len(s) |-> Op(s[i])]

\* mutant: the inventory is compared in a forced run as well
ConsolidateChangesLoadsAlways(remoteComponents, force, dbFile, fs) ==
    LET remoteIcons == MapSeq(remoteComponents, FormatRemote)
    IN  IF dbFile.state # "absent"
        THEN LET localIcons == MapSeq(dbFile.icons, FormatLocal)
                 cl == ClassifyRemote(remoteIcons, localIcons, fs, EmptyChangelog)
             IN  [cl EXCEPT !.removed = RemovedIcons(localIcons, remoteIcons, fs)]
        ELSE [EmptyChangelog EXCEPT !.added = remoteIcons]

\* mutant: a forced run still lists the removed icons of the inventory
ConsolidateChangesForcedKeepsRemoved(remoteComponents, force, dbFile, fs) ==
    LET remoteIcons == MapSeq(remoteComponents, FormatRemote)
        localIcons == MapSeq(dbFile.icons, FormatLocal)
    IN  IF dbFile.state # "absent" /\ ~force
        THEN LET cl == ClassifyRemote(remoteIcons, localIcons, fs, EmptyChangelog)
             IN  [cl EXCEPT !.removed = RemovedIcons(localIcons, remoteIcons, fs)]
        ELSE [EmptyChangelog EXCEPT !.added = remoteIcons,
                                    !.removed = RemovedIcons(localIcons, remoteIcons, fs)]

ConsolidateChanges(remoteComponents, force, dbFile, fs) ==
    LET remoteIcons == MapSeq(remoteComponents, FormatRemote)
    IN  IF dbFile.state # "absent" /\ ~force
        THEN LET localIcons == MapSeq(dbFile.icons, FormatLocal)
                 cl == ClassifyRemote(remoteIcons, localIcons, fs, EmptyChangelog)
             IN  [cl EXCEPT !.removed = RemovedIcons(localIcons, remoteIcons, fs)]
        ELSE [EmptyChangelog EXCEPT !.added = remoteIcons]

\* mutant: a file that is not JSON is read as an empty inventory
ParseFailsNever(dbFile, force) == FALSE

\* JSON.parse(fs.readFileSync(this.localHashesFile)) throws on a file that is not JSON;
\* a forced run does not read the file
ParseFails(dbFile, force) == dbFile.state = "malformed" /\ ~force

(***************************************************************************)
(* The inventory file.  db.icons is the array JSON.parse reads from the    *)
(* text of the file; the text is the list of the members of each object.   *)
(***************************************************************************)
\* the keys of an icon, in the order format, downloadAndCleanIcons and the map over
\* the unmodified icons insert them
KeyOrder == <<"nodeId", "name", "previousNames", "isRenamed", "hash", "svg">>

\* JSON.stringify leaves out the members whose value is undefined
IsUndefined(obj, k) == k \in {"nodeId", "name", "hash", "svg"} /\ obj[k] = Undefined

RECURSIVE Members(_, _)
Members(obj, keys) ==
    IF keys = <<>> THEN <<>>
    ELSE LET k == Head(keys)
         IN  IF k \in DOMAIN obj /\ ~IsUndefined(obj, k)
             THEN <<[key |-> k, value |-> obj[k]]>> \o Members(obj, Tail(keys))
             ELSE Members(obj, Tail(keys))

\* JSON.stringify(iconsList)
JSONStringify(list) == [i \in 1..Len(list) |-> Members(list[i], KeyOrder)]

ParseObject(text) ==
    [k \in {text[i].key : i \in 1..Len(text)} |->
        text[CHOOSE i \in 1..Len(text) : text[i].key = k].value]

\* JSON.parse of a text JSON.stringify wrote
JSONParse(text) == MapSeq(text, ParseObject)

\* updateLocalIconsDb(iconsList): the file after fs.writeFileSync
WrittenDb(iconsList) == [state |-> "ok", icons |-> JSONParse(JSONStringify(iconsList))]

\* the array in a well-formed _icons.js
LegacyIcons == <<[nodeId |-> "N1", name |-> "a", previousNames |-> <<>>, hash |-> "h1"]>>

\* mutant: a damaged _icons.js resets the inventory to an empty one
PerformMigrationsResets(legacyFile, dbFile) ==
    IF legacyFile # "absent" /\ dbFile.state = "absent"
    THEN IF legacyFile = "ok"
         THEN [legacy |-> "absent", db |-> WrittenDb(LegacyIcons)]
         ELSE [legacy |-> legacyFile, db |-> WrittenDb(<<>>)]
    ELSE [legacy |-> legacyFile, db |-> dbFile]

\* mutant: the old store is migrated over an existing inventory
PerformMigrationsOverwrites(legacyFile, dbFile) ==
    IF legacyFile # "absent"
    THEN IF legacyFile = "ok"
         THEN [legacy |-> "absent", db |-> WrittenDb(LegacyIcons)]
         ELSE [legacy |-> legacyFile, db |-> dbFile]
    ELSE [legacy |-> legacyFile, db |-> dbFile]

\* performMigrations: the two stores after it
PerformMigrations(legacyFile, dbFile) ==
    IF legacyFile # "absent" /\ dbFile.state = "absent"
    THEN IF legacyFile = "ok"
         THEN [legacy |-> "absent", db |-> WrittenDb(LegacyIcons)]
         ELSE [legacy |-> legacyFile, db |-> dbFile]
    ELSE [legacy |-> legacyFile, db |-> dbFile]

(***************************************************************************)
(* extractIcons.                                                           *)
(***************************************************************************)
NoDb == [state |-> "absent", icons |-> <<>>]

NoOutput == [returned |-> FALSE, changelog |-> EmptyChangelog, totalFetches |-> 0,
             reports |-> <<>>]

NoRun == [output |-> NoOutput, forceReload |-> FALSE, renames |-> {}, collided |-> {},
          unableToSave |-> FALSE]

RECURSIVE LastExisting(_, _, _)
\* the loop over [...icon.previousNames, icon.name]: the last existing file wins
LastExisting(fs, names, svg) ==
    IF names = <<>> THEN svg
    ELSE LastExisting(fs, Tail(names),
                      IF ExistsSync(fs, Head(names)) THEN fs[FilePath(Head(names))] ELSE svg)

\* mutant: the content of an unmodified icon is the export, not the file
ReadFromDiskFetches(fs, icon) ==
    [nodeId |-> icon.nodeId, name |-> icon.name, previousNames |-> icon.previousNames,
     isRenamed |-> icon.isRenamed, hash |-> icon.hash, svg |-> SvgOf(icon.hash)]

\* the map over [...changelog.unmodified, ...changelog.removed]
ReadFromDisk(fs, icon) ==
    [nodeId |-> icon.nodeId, name |-> icon.name, previousNames |-> icon.previousNames,
     isRenamed |-> icon.isRenamed, hash |-> icon.hash,
     svg |-> LastExisting(fs, Append(icon.previousNames, icon.name), Undefined)]

\* downloadAndCleanIcons, for one icon
Downloaded(icon) ==
    [nodeId |-> icon.nodeId, name |-> icon.name, previousNames |-> icon.previousNames,
     isRenamed |-> icon.isRenamed, hash |-> icon.hash, svg |-> SvgOf(icon.hash)]

\* mutant: every icon that is not added is resolved as unmodified
TypeOfUnmodified(cl, id) ==
    IF FindNode(cl.added, id) # 0 THEN "added" ELSE "unmodified"

\* Object.keys(changelog).find(key => changelog[key].find(...) != undefined)
TypeOf(cl, id) ==
    IF FindNode(cl.unmodified, id) # 0 THEN "unmodified"
    ELSE IF FindNode(cl.modified, id) # 0 THEN "modified"
    ELSE IF FindNode(cl.added, id) # 0 THEN "added"
    ELSE IF FindNode(cl.restored, id) # 0 THEN "restored"
    ELSE IF FindNode(cl.removed, id) # 0 THEN "removed"
    ELSE Undefined

\* mutant: the forced run looks at the file as well
ExistsIgnoringForce(fs, force, icon) == ExistsSync(fs, icon.name)

\* exists(icon)
Exists(fs, force, icon) == ~force /\ ExistsSync(fs, icon.name)

\* mutant: the comparison of the contents is inverted
CollidesWhenEqual(fs, force, icon) ==
    Exists(fs, force, icon) /\ GetContents(fs, icon.name) = icon.svg

\* await exists(icon) && await getContents(icon.name) != icon.svg
Collides(fs, force, icon) == Exists(fs, force, icon) /\ GetContents(fs, icon.name) # icon.svg

\* mutant: the reverted name stays in the list
OtherNamesUnfiltered(icon) == icon.previousNames

\* icon.previousNames.filter(v => v !== icon.name)
OtherNames(icon) == Filter(icon.previousNames, Names \ {icon.name})

\* mutant: the names whose file is gone are kept
KeptNamesStale(fs, icon) == Filter(icon.previousNames, Names \ {icon.name})

\* icon.previousNames.filter(name => name !== icon.name && fs.existsSync(... name ...))
KeptNames(fs, icon) ==
    Filter(icon.previousNames, {n \in Names : n # icon.name /\ ExistsSync(fs, n)})

\* what warn(type, data) prints: the type and the file names of its message.  The
\* messages of the rename warnings read data.oldName and data.newName.
Warn(type, data) ==
    [type |-> type,
     printed |-> IF type = "unable-to-save" THEN <<data.name \o ".svg">>
                 ELSE <<data.oldName \o ".svg", data.newName \o ".svg">>]

\* the object extractIcons passes to warn, with the fields warn reads
WarnData(icon) ==
    [name |-> icon.name, oldName |-> Undefined, newName |-> Undefined]

Saved(fs, icon, both, flat, warning) ==
    [throws |-> FALSE, drop |-> FALSE, icon |-> icon,
     files |-> SaveIcon(fs, icon, both, flat), warned |-> warning]

\* mutant: an unmodified icon is saved like a modified one
ResolveSavesUnmodified(fs, force, flat, type, icon) ==
    IF type = "added"
    THEN IF Collides(fs, force, icon)
         THEN [throws |-> FALSE, drop |-> TRUE, icon |-> icon, files |-> fs,
               warned |-> <<Warn("unable-to-save", WarnData(icon))>>]
         ELSE Saved(fs, icon, FALSE, flat, <<>>)
    ELSE IF icon.isRenamed
    THEN IF Includes(icon.previousNames, icon.name)
         THEN Saved(fs, [icon EXCEPT !.previousNames = OtherNames(icon)], TRUE, flat,
                    <<Warn("renamed-saved-both", WarnData(icon))>>)
         ELSE IF Collides(fs, force, icon)
         THEN \* icon.name = data.previousNames.slice(-1)[0]: data is not defined
              [throws |-> TRUE, drop |-> FALSE, icon |-> icon, files |-> fs, warned |-> <<>>]
         ELSE Saved(fs, icon, TRUE, flat, <<Warn("renamed-saved-both", WarnData(icon))>>)
    ELSE LET kept == [icon EXCEPT !.previousNames = KeptNames(fs, icon)]
             reminder == IF Len(kept.previousNames) > 0
                         THEN <<Warn("rename-reminder", WarnData(icon))>> ELSE <<>>
         IN  Saved(fs, kept, TRUE, flat, reminder)

\* the body of the loop "Processing changes and renames" for one icon of type type
Resolve(fs, force, flat, type, icon) ==
    IF type = "added"
    THEN IF Collides(fs, force, icon)
         THEN [throws |-> FALSE, drop |-> TRUE, icon |-> icon, files |-> fs,
               warned |-> <<Warn("unable-to-save", WarnData(icon))>>]
         ELSE Saved(fs, icon, FALSE, flat, <<>>)
    ELSE IF icon.isRenamed
    THEN IF Includes(icon.previousNames, icon.name)
         THEN Saved(fs, [icon EXCEPT !.previousNames = OtherNames(icon)], TRUE, flat,
                    <<Warn("renamed-saved-both", WarnData(icon))>>)
         ELSE IF Collides(fs, force, icon)
         THEN \* icon.name = data.previousNames.slice(-1)[0]: data is not defined
              [throws |-> TRUE, drop |-> FALSE, icon |-> icon, files |-> fs, warned |-> <<>>]
         ELSE Saved(fs, icon, TRUE, flat, <<Warn("renamed-saved-both", WarnData(icon))>>)
    ELSE LET kept == [icon EXCEPT !.previousNames = KeptNames(fs, icon)]
             reminder == IF Len(kept.previousNames) > 0
                         THEN <<Warn("rename-reminder", WarnData(icon))>> ELSE <<>>
         IN  IF type # "unmodified"
             THEN Saved(fs, kept, TRUE, flat, reminder)
             ELSE [throws |-> FALSE, drop |-> FALSE, icon |-> kept, files |-> fs,
                   warned |-> reminder]

\* mutant: delete icon.isRenamed is forgotten
MinifiedWithFlag(icon) ==
    [nodeId |-> icon.nodeId, name |-> icon.name, previousNames |-> icon.previousNames,
     hash |-> icon.hash, isRenamed |-> icon.isRenamed]

\* the record updateLocalIconsDb writes for an icon
Minified(icon) ==
    [nodeId |-> icon.nodeId, name |-> icon.name, previousNames |-> icon.previousNames,
     hash |-> icon.hash]

RECURSIVE SurvivingButFirst(_, _, _)
\* mutant: the first icon of the list is not written
SurvivingButFirst(list, gone, i) ==
    IF i > Len(list) THEN <<>>
    ELSE IF i \in gone \/ i = 1 THEN SurvivingButFirst(list, gone, i + 1)
         ELSE <<[nodeId |-> list[i].nodeId, name |-> list[i].name,
                 previousNames |-> list[i].previousNames, hash |-> list[i].hash]>>
              \o SurvivingButFirst(list, gone, i + 1)

RECURSIVE Surviving(_, _, _)
\* iconsContents.filter(icon => icon != null).map(...)
Surviving(list, gone, i) ==
    IF i > Len(list) THEN <<>>
    ELSE IF i \in gone THEN Surviving(list, gone, i + 1)
         ELSE <<Minified(list[i])>> \o Surviving(list, gone, i + 1)

FileName(icon) == icon.name \o ".svg"

\* the identifiers whose recorded name differs from the remote name, at the start of a run
RenamesOf(dbFile, components) ==
    {<<c.nodeId, r.name, c.name>> :
        <<c, r>> \in {<<components[i], dbFile.icons[j]>> :
                        i \in 1..Len(components), j \in 1..Len(dbFile.icons)}}

Idle == pc \in {"idle", "done", "failed"}

\* the rejection of the promise of extractIcons, as bin.js handles it: the catch
\* handler prints the error and returns
Rejected(err) ==
    /\ pc' = "failed"
    /\ thrown' = err
    /\ stderr' = err
    /\ exitCode' = 0

\* extractIcons up to the download: performMigrations, getFigmaFrameContents (the
\* request succeeds or not), consolidateChanges and the two lists
StartRun(force, reached) ==
    /\ Idle
    /\ nRuns < MaxRuns
    /\ LET m == PerformMigrations(legacy, db)
           cl == ConsolidateChanges(remote, force, m.db, files)
       IN  /\ db' = m.db
           /\ legacy' = m.legacy
           /\ db0' = m.db
           /\ IF ~reached
              THEN /\ Rejected("FetchError")
                   /\ remote0' = <<>>
                   /\ changelog' = EmptyChangelog
                   /\ downloadList' = <<>>
                   /\ iconsContents' = <<>>
              ELSE IF ParseFails(m.db, force)
              THEN /\ Rejected("SyntaxError")
                   /\ remote0' = remote
                   /\ changelog' = EmptyChangelog
                   /\ downloadList' = <<>>
                   /\ iconsContents' = <<>>
              ELSE /\ remote0' = remote
                   /\ changelog' = cl
                   /\ downloadList' = cl.added \o cl.modified \o cl.restored
                   /\ iconsContents' = [i \in 1..Len(cl.unmodified \o cl.removed) |->
                                           ReadFromDisk(files, (cl.unmodified \o cl.removed)[i])]
                   /\ pc' = IF Len(cl.added \o cl.modified \o cl.restored) > 0
                            THEN "download" ELSE "resolve"
                   /\ thrown' = "none"
                   /\ stderr' = "none"
                   /\ exitCode' = exitCode
    /\ forceReload' = force
    /\ deleted' = {}
    /\ idx' = 1
    /\ warned' = <<>>
    /\ eventsList' = <<>>
    /\ output' = NoOutput
    /\ dbPrior' = db
    /\ files0' = files
    /\ prevRun' = IF pc = "done"
                  THEN [output |-> output, forceReload |-> forceReload, renames |-> renames,
                        collided |-> {},
                        unableToSave |-> \E k \in 1..Len(warned) :
                                            warned[k].type = "unable-to-save"]
                  ELSE [NoRun EXCEPT !.renames = renames,
                                     !.collided = IF pc = "failed" /\ thrown = "ReferenceError"
                                                  THEN {<<iconsContents[idx].nodeId,
                                                          iconsContents[idx].name>>}
                                                  ELSE {}]
    /\ renames' = {}
    /\ nRuns' = nRuns + 1
    /\ UNCHANGED <<remote, files, ignoreSubfolders, nEdits>>
    /\ UNCHANGED <<frameContents, discovered>>

\* mutant: the downloaded icons are put in front of the icons read from disk
DownloadPrepends ==
    /\ pc = "download"
    /\ iconsContents' = MapSeq(downloadList, Downloaded) \o iconsContents
    /\ pc' = "resolve"
    /\ UNCHANGED <<remote, files, db, legacy, ignoreSubfolders, forceReload, changelog,
                   deleted, downloadList, idx, warned, thrown, eventsList, output, db0,
                   dbPrior, stderr, exitCode, files0, remote0, renames, prevRun, nRuns,
                   nEdits>>
    /\ UNCHANGED <<frameContents, discovered>>

Download ==
    /\ pc = "download"
    /\ iconsContents' = iconsContents \o MapSeq(downloadList, Downloaded)
    /\ pc' = "resolve"
    /\ UNCHANGED <<remote, files, db, legacy, ignoreSubfolders, forceReload, changelog,
                   deleted, downloadList, idx, warned, thrown, eventsList, output, db0,
                   dbPrior, stderr, exitCode, files0, remote0, renames, prevRun, nRuns,
                   nEdits>>
    /\ UNCHANGED <<frameContents, discovered>>

\* mutant: each icon is saved as soon as it is fetched, the first one before the
\* request that fails
DownloadFailsMidway ==
    /\ pc = "download"
    /\ Rejected("FetchError")
    /\ files' = SaveIcon(files, Downloaded(downloadList[1]), FALSE, ignoreSubfolders)
    /\ UNCHANGED <<remote, db, legacy, ignoreSubfolders, forceReload, changelog,
                   iconsContents, deleted, downloadList, idx, warned, eventsList, output,
                   db0, dbPrior, files0, remote0, renames, prevRun, nRuns, nEdits>>
    /\ UNCHANGED <<frameContents, discovered>>

\* downloadAndCleanIcons is rejected: the request for the links or the request for
\* the content of one icon fails
DownloadFails ==
    /\ pc = "download"
    /\ Rejected("FetchError")
    /\ UNCHANGED <<remote, files, db, legacy, ignoreSubfolders, forceReload, changelog,
                   iconsContents, deleted, downloadList, idx, warned, eventsList, output,
                   db0, dbPrior, files0, remote0, renames, prevRun, nRuns, nEdits>>
    /\ UNCHANGED <<frameContents, discovered>>

\* one iteration of the loop "Processing changes and renames"
ResolveIcon ==
    /\ pc = "resolve"
    /\ idx <= Len(iconsContents)
    /\ LET r == Resolve(files, forceReload, ignoreSubfolders,
                        TypeOf(changelog, iconsContents[idx].nodeId), iconsContents[idx])
       IN  IF r.throws
           THEN /\ Rejected("ReferenceError")
                /\ UNCHANGED <<files, iconsContents, deleted, warned, idx>>
           ELSE /\ files' = r.files
                /\ iconsContents' = [iconsContents EXCEPT ![idx] = r.icon]
                /\ deleted' = IF r.drop THEN deleted \cup {idx} ELSE deleted
                /\ warned' = warned \o r.warned
                /\ idx' = idx + 1
                /\ UNCHANGED <<pc, thrown, stderr, exitCode>>
    /\ UNCHANGED <<remote, db, legacy, ignoreSubfolders, forceReload, changelog,
                   downloadList, eventsList, output, db0, dbPrior, files0, remote0, renames,
                   prevRun, nRuns, nEdits>>
    /\ UNCHANGED <<frameContents, discovered>>

\* updateLocalIconsDb and the returned value.  The names of the returned changelog are
\* read from the icons of changelog, whose names no completed resolution changes.
Persist ==
    /\ pc = "resolve"
    /\ idx > Len(iconsContents)
    /\ db' = WrittenDb(Surviving(iconsContents, deleted, 1))
    /\ output' = [returned |-> TRUE,
                  changelog |-> [key \in DOMAIN changelog |-> MapSeq(changelog[key], FileName)],
                  totalFetches |-> Len(downloadList),
                  reports |-> eventsList]
    /\ renames' = {t \in RenamesOf(db0, remote0) : t[2] # t[3]}
    /\ pc' = "done"
    /\ exitCode' = 0
    /\ UNCHANGED <<remote, files, legacy, ignoreSubfolders, forceReload, changelog,
                   iconsContents, deleted, downloadList, idx, warned, thrown, eventsList,
                   db0, dbPrior, stderr, files0, remote0, prevRun, nRuns, nEdits>>
    /\ UNCHANGED <<frameContents, discovered>>

(***************************************************************************)
(* The environment between two runs: the designer and the user.            *)
(***************************************************************************)
BetweenRuns ==
    /\ Idle
    /\ nEdits < MaxEdits
    /\ nEdits' = nEdits + 1
    /\ pc' = "idle"
    /\ forceReload' = FALSE
    /\ changelog' = EmptyChangelog
    /\ iconsContents' = <<>>
    /\ deleted' = {}
    /\ downloadList' = <<>>
    /\ idx' = 1
    /\ warned' = <<>>
    /\ thrown' = "none"
    /\ eventsList' = <<>>
    /\ output' = NoOutput
    /\ db0' = NoDb
    /\ dbPrior' = NoDb
    /\ stderr' = "none"
    /\ files0' = [p \in AllPaths |-> NoFile]
    /\ remote0' = <<>>
    /\ prevRun' = NoRun
    /\ UNCHANGED <<ignoreSubfolders, renames, exitCode, nRuns>>
    /\ UNCHANGED <<frameContents, discovered>>

\* Identifiers are allocated in order: N2 is created once N1 exists or is recorded.
DesignerAdds(id, name, hash) ==
    /\ BetweenRuns
    /\ FindNode(remote, id) = 0
    /\ id = "N2" => (FindNode(remote, "N1") # 0 \/ FindNode(db.icons, "N1") # 0)
    /\ remote' = Append(remote, [nodeId |-> id, name |-> name, hash |-> hash])
    /\ UNCHANGED <<files, db, legacy>>

\* the designer renames a component, changes its drawing, or both
DesignerEdits(i, name, hash) ==
    /\ BetweenRuns
    /\ i \in 1..Len(remote)
    /\ remote[i].name # name \/ remote[i].hash # hash
    /\ remote' = [remote EXCEPT ![i].name = name, ![i].hash = hash]
    /\ UNCHANGED <<files, db, legacy>>

DesignerRemoves(i) ==
    /\ BetweenRuns
    /\ i \in 1..Len(remote)
    /\ remote' = [j \in 1..(Len(remote) - 1) |-> IF j < i THEN remote[j] ELSE remote[j + 1]]
    /\ UNCHANGED <<files, db, legacy>>

\* the paths a run with this option reads or writes
ToolPaths(flat) == {FilePath(n) : n \in Names} \cup {SavePath(n, flat) : n \in Names}

UserDeletes(path) ==
    /\ BetweenRuns
    /\ path \in ToolPaths(ignoreSubfolders)
    /\ files[path] # NoFile
    /\ files' = [files EXCEPT ![path] = NoFile]
    /\ UNCHANGED <<remote, db, legacy>>

UserWrites(path, bytes) ==
    /\ BetweenRuns
    /\ path \in ToolPaths(ignoreSubfolders)
    /\ files[path] # bytes
    /\ files' = [files EXCEPT ![path] = bytes]
    /\ UNCHANGED <<remote, db, legacy>>

\* the user (or a crashed editor) leaves _icons.json unparsable
UserCorrupts ==
    /\ BetweenRuns
    /\ db.state # "malformed"
    /\ db' = [state |-> "malformed", icons |-> <<>>]
    /\ UNCHANGED <<remote, files, legacy>>

\* a directory written by a version before 1.1.0, or one where the old store was put
\* back: _icons.js is there, well-formed or damaged, with or without _icons.json
UserKeepsLegacy(state) ==
    /\ BetweenRuns
    /\ legacy = "absent"
    /\ legacy' = state
    /\ UNCHANGED <<remote, files, db>>

\* the state after construction, before any frame was read, in a directory without
\* icons and without inventory, whose old-format store is as given
ConstructedOver(store) ==
    /\ remote = <<>>
    /\ files = [p \in AllPaths |-> NoFile]
    /\ db = NoDb
    /\ legacy = store
    /\ ignoreSubfolders \in BOOLEAN
    /\ pc = "idle"
    /\ forceReload = FALSE
    /\ changelog = EmptyChangelog
    /\ iconsContents = <<>>
    /\ deleted = {}
    /\ downloadList = <<>>
    /\ idx = 1
    /\ warned = <<>>
    /\ thrown = "none"
    /\ eventsList = <<>>
    /\ output = NoOutput
    /\ db0 = NoDb
    /\ dbPrior = NoDb
    /\ stderr = "none"
    /\ exitCode = 0
    /\ files0 = files
    /\ remote0 = <<>>
    /\ renames = {}
    /\ prevRun = NoRun
    /\ nRuns = 0
    /\ nEdits = 0
    /\ discovered = <<>>

\* construction in an empty directory
Constructed == ConstructedOver("absent")

Init == Constructed /\ frameContents = <<>>

\* construction in a directory a version before 1.1.0 wrote, whose icons are gone
InitUpgraded == ConstructedOver("ok") /\ frameContents = <<>>

\* two components of one name and one drawing
SyncedIcons ==
    <<[nodeId |-> "N1", name |-> "a", hash |-> "h1"],
      [nodeId |-> "N2", name |-> "a", hash |-> "h1"]>>

\* the directory, the inventory and the frame after a first run over SyncedIcons
Synced ==
    /\ remote = SyncedIcons
    /\ files = [p \in AllPaths |-> IF p = FilePath("a") THEN SvgOf("h1") ELSE NoFile]
    /\ db = WrittenDb(MapSeq(MapSeq(SyncedIcons, FormatRemote), Minified))
    /\ legacy = "absent"

\* construction in a directory that a first run over SyncedIcons has filled
InitSynced ==
    /\ Synced
    /\ ignoreSubfolders \in BOOLEAN
    /\ pc = "idle"
    /\ forceReload = FALSE
    /\ changelog = EmptyChangelog
    /\ iconsContents = <<>>
    /\ deleted = {}
    /\ downloadList = <<>>
    /\ idx = 1
    /\ warned = <<>>
    /\ thrown = "none"
    /\ eventsList = <<>>
    /\ output = NoOutput
    /\ db0 = NoDb
    /\ dbPrior = NoDb
    /\ stderr = "none"
    /\ exitCode = 0
    /\ files0 = [p \in AllPaths |-> NoFile]
    /\ remote0 = <<>>
    /\ renames = {}
    /\ prevRun = NoRun
    /\ nRuns = 0
    /\ nEdits = 0
    /\ discovered = <<>>
    /\ frameContents = <<>>

Next ==
    \/ \E force \in BOOLEAN, reached \in BOOLEAN : StartRun(force, reached)
    \/ Download
    \/ DownloadFails
    \/ ResolveIcon
    \/ Persist
    \/ \E id \in Ids, name \in Names, hash \in Hashes : DesignerAdds(id, name, hash)
    \/ \E i \in 1..Len(remote), name \in Names, hash \in Hashes : DesignerEdits(i, name, hash)
    \/ \E i \in 1..Len(remote) : DesignerRemoves(i)
    \/ \E path \in AllPaths : UserDeletes(path)
    \/ \E path \in AllPaths, bytes \in UserBytes : UserWrites(path, bytes)
    \/ UserCorrupts
    \/ \E state \in {"ok", "damaged"} : UserKeepsLegacy(state)

Spec == Init /\ [][Next]_vars

SpecUpgraded == InitUpgraded /\ [][Next]_vars

SpecSynced == InitSynced /\ [][Next]_vars

(***************************************************************************)
(* Vocabulary of the properties.                                           *)
(***************************************************************************)
Categories == {"unmodified", "modified", "added", "restored", "removed"}

\* a run has classified: changelog, db0, files0 and remote0 are those of the run
Classified == pc \in {"download", "resolve", "done", "failed"}

InCategory(cat, id) == \E k \in 1..Len(changelog[cat]) : changelog[cat][k].nodeId = id

OnlyIn(cat, id) == \A other \in Categories : InCategory(other, id) <=> other = cat

HasRecord(dbFile, id) == \E j \in 1..Len(dbFile.icons) : dbFile.icons[j].nodeId = id

RecordOf(dbFile, id) == dbFile.icons[CHOOSE j \in 1..Len(dbFile.icons) : dbFile.icons[j].nodeId = id]

\* the resolution loop is about to resolve iconsContents[idx]
Resolving == pc = "resolve" /\ idx <= Len(iconsContents)

Current == iconsContents[idx]

WasWarned(type) == \E k \in 1..Len(warned) : warned[k].type = type

(***************************************************************************)
(* C1.  In a non-forced run with an existing inventory, a remote item that *)
(* has a local record of the same identifier is classified by (hash        *)
(* equality, existence of the file at the record's name): equal and exists *)
(* -> unmodified, equal and missing -> restored, differs and exists ->     *)
(* modified, differs and missing -> restored; a remote item without a      *)
(* local record is classified added.                                       *)
(***************************************************************************)
ExpectedCategory(sameHash, fileExists) ==
    CASE sameHash /\ fileExists -> "unmodified"
      [] sameHash /\ ~fileExists -> "restored"
      [] ~sameHash /\ fileExists -> "modified"
      [] ~sameHash /\ ~fileExists -> "restored"

C1_Classification ==
    (Classified /\ ~forceReload /\ db0.state = "ok") =>
        \A i \in 1..Len(remote0) :
            LET c == remote0[i]
            IN  IF HasRecord(db0, c.nodeId)
                THEN OnlyIn(ExpectedCategory(c.hash = RecordOf(db0, c.nodeId).hash,
                                files0[RecordOf(db0, c.nodeId).name \o ".svg"] # NoFile),
                            c.nodeId)
                ELSE OnlyIn("added", c.nodeId)

\* a run that classifies an item restored although its hash changed: its file was deleted
C1_Witness ==
    /\ Classified /\ ~forceReload /\ db0.state = "ok" /\ ~ignoreSubfolders
    /\ \E j \in 1..Len(remote0) :
        /\ HasRecord(db0, remote0[j].nodeId)
        /\ RecordOf(db0, remote0[j].nodeId).hash # remote0[j].hash
        /\ InCategory("restored", remote0[j].nodeId)

(***************************************************************************)
(* C2.  Collision on add.  In a non-forced run, when the item being        *)
(* resolved has no local record and a file exists at its name with bytes   *)
(* different from the fetched content, the item is classified added, the   *)
(* file keeps its bytes, warn prints unable-to-save naming '<name>.svg',   *)
(* and the inventory the run persists has no record of the identifier.     *)
(***************************************************************************)
AddCollision ==
    /\ Resolving
    /\ ~forceReload
    /\ ~HasRecord(db0, Current.nodeId)
    /\ files[Current.name \o ".svg"] \notin {NoFile, SvgOf(Current.hash)}

C2_CollisionOnAdd ==
    /\ [][AddCollision =>
            /\ OnlyIn("added", Current.nodeId)
            /\ files' = files
            /\ warned' = Append(warned, [type |-> "unable-to-save",
                                         printed |-> <<Current.name \o ".svg">>])
            /\ idx \in deleted'
            /\ pc' = "resolve"]_vars
    /\ [](pc = "done" => \A i \in deleted : ~HasRecord(db, iconsContents[i].nodeId))

\* a completed run that dropped an added item and left the user's file as it was
C2_Witness ==
    /\ pc = "done" /\ ~forceReload
    /\ \E i \in deleted :
        /\ files0[iconsContents[i].name \o ".svg"] = Foreign
        /\ files[iconsContents[i].name \o ".svg"] = Foreign
        /\ WasWarned("unable-to-save")
        /\ ~HasRecord(db, iconsContents[i].nodeId)

(***************************************************************************)
(* C3.  Rename conflict.  When the item being resolved was fetched, its    *)
(* record {name: old, previousNames: []} differs in name from the remote   *)
(* name new, and new.svg exists with bytes different from the fetched      *)
(* content, the resolution reverts the item's name to old, warns           *)
(* renamed-unable-to-save, leaves new.svg as it is, and the run goes on.   *)
(***************************************************************************)
RenameConflict ==
    /\ Resolving
    /\ ~forceReload
    /\ HasRecord(db0, Current.nodeId)
    /\ RecordOf(db0, Current.nodeId).previousNames = <<>>
    /\ RecordOf(db0, Current.nodeId).name # Current.name
    /\ \E k \in 1..Len(downloadList) : downloadList[k].nodeId = Current.nodeId
    /\ files[Current.name \o ".svg"] \notin {NoFile, SvgOf(Current.hash)}

C3_RenameConflict ==
    [][RenameConflict =>
        /\ pc' = "resolve"
        /\ iconsContents'[idx].name = RecordOf(db0, Current.nodeId).name
        /\ Len(warned') = Len(warned) + 1
        /\ warned'[Len(warned')].type = "renamed-unable-to-save"
        /\ files' = files]_vars

(***************************************************************************)
(* C4.  Advisory conditions never abort a run: a run whose fetches succeed *)
(* and whose inventory file is well-formed does not fail, whatever         *)
(* collisions and renames its resolution meets.                            *)
(***************************************************************************)
FatalErrors == {"FetchError", "SyntaxError"}

C4_AdvisoriesNeverAbort == pc = "failed" => thrown \in FatalErrors

(***************************************************************************)
(* C5.  Idempotence.  As claimed: two consecutive runs with the same       *)
(* remote inventory and no change of the directory in between return the   *)
(* same changelog.                                                         *)
(***************************************************************************)
Consecutive == pc = "done" /\ prevRun.output.returned

RemoteIds == {remote0[i].nodeId : i \in 1..Len(remote0)}

RemoteOf(id) == remote0[CHOOSE i \in 1..Len(remote0) : remote0[i].nodeId = id]

\* the identifiers of the run to restore
ToRestore ==
    IF Classified /\ ~forceReload /\ db0.state = "ok"
    THEN {id \in RemoteIds : HasRecord(db0, id)
                             /\ files0[RecordOf(db0, id).name \o ".svg"] = NoFile}
    ELSE {}

Refetched(id) ==
    /\ OnlyIn("restored", id)
    /\ \E k \in 1..Len(downloadList) : downloadList[k].nodeId = id
    /\ pc = "done" => output.totalFetches = Len(downloadList)

C6_Original ==
    \A id \in ToRestore :
        /\ Refetched(id)
        /\ pc = "done" =>
            files[SavePath(RemoteOf(id).name, ignoreSubfolders)] = SvgOf(RemoteOf(id).hash)

\* C6, amended: such an item is classified restored, it is in the download list and
\* counted in totalFetches, and when it is resolved its fetched content is written to
\* the file of its name, unless it was also renamed onto a name whose file exists with
\* different bytes (a rename collision writes nothing).  A later item of the run that
\* shares the name may overwrite the file.
RenameCollision ==
    /\ RecordOf(db0, Current.nodeId).name # Current.name
    /\ ~Includes(RecordOf(db0, Current.nodeId).previousNames, Current.name)
    /\ files[Current.name \o ".svg"] \notin {NoFile, SvgOf(Current.hash)}

C6_Restore ==
    /\ [](\A id \in ToRestore : Refetched(id))
    /\ [][(Resolving /\ Current.nodeId \in ToRestore /\ ~RenameCollision) =>
            /\ Current.svg = SvgOf(RemoteOf(Current.nodeId).hash)
            /\ files'[SavePath(Current.name, ignoreSubfolders)] = Current.svg]_vars

\* the restore scenario: same hash, the file was deleted and is back after the run
C6_Witness ==
    /\ pc = "done" /\ ~ignoreSubfolders
    /\ \E id \in ToRestore :
        /\ RecordOf(db0, id).hash = RemoteOf(id).hash
        /\ RecordOf(db0, id).name = RemoteOf(id).name
        /\ files[RemoteOf(id).name \o ".svg"] = SvgOf(RemoteOf(id).hash)
        /\ output.totalFetches > 0

(***************************************************************************)
(* C7.  Rename-revert.  An item whose recorded name A met the remote name  *)
(* B in one completed run and whose remote name is A again in the next run *)
(* has, in the inventory the second run persists, the name A, a            *)
(* previousNames list without A, and no isRenamed field.                   *)
(***************************************************************************)
\* the identifiers renamed A -> B by the previous run and B -> A by this one
Reverted ==
    {t \in prevRun.renames :
        /\ t[1] \in RemoteIds
        /\ RemoteOf(t[1]).name = t[2]
        /\ HasRecord(db0, t[1])
        /\ RecordOf(db0, t[1]).name = t[3]}

C7_RenameRevert ==
    pc = "done" =>
        \A t \in Reverted :
            /\ HasRecord(db, t[1])
            /\ RecordOf(db, t[1]).name = t[2]
            /\ ~Includes(RecordOf(db, t[1]).previousNames, t[2])
            /\ DOMAIN RecordOf(db, t[1]) = {"nodeId", "name", "previousNames", "hash"}

\* a non-forced second run that has persisted a reverted item, the other name kept
C7_Witness ==
    /\ pc = "done" /\ ~forceReload
    /\ \E t \in Reverted : RecordOf(db, t[1]).previousNames = <<t[3]>>

(***************************************************************************)
(* C8.  Every record of the persisted inventory has a previousNames list   *)
(* without duplicates that does not contain the record's own name.         *)
(***************************************************************************)
NoDuplicates(s) == \A i, j \in 1..Len(s) : s[i] = s[j] => i = j

C8_PreviousNames ==
    \A k \in 1..Len(db.icons) :
        /\ NoDuplicates(db.icons[k].previousNames)
        /\ ~Includes(db.icons[k].previousNames, db.icons[k].name)

\* an inventory with a record that has two previous names
C8_Witness == \E k \in 1..Len(db.icons) : Len(db.icons[k].previousNames) = 2

(***************************************************************************)
(* C9.  Eviction only when forgotten.  As claimed, for every run, forced   *)
(* or not: a record of the inventory before the run is absent from the     *)
(* inventory the run persists only if its identifier is absent from the    *)
(* remote inventory and no file exists at its recorded name.               *)
(***************************************************************************)
Evicted == {k \in 1..Len(db0.icons) : ~HasRecord(db, db0.icons[k].nodeId)}

Forgotten(r) == r.nodeId \notin RemoteIds /\ files0[r.name \o ".svg"] = NoFile

C9_Original == pc = "done" => \A k \in Evicted : Forgotten(db0.icons[k])

\* C9, amended: the same, for every non-forced run (a forced run persists the remote
\* items alone).
C9_Eviction == (pc = "done" /\ ~forceReload) => \A k \in Evicted : Forgotten(db0.icons[k])

\* a non-forced run that evicted a record: removed remotely, its file deleted
C9_Witness ==
    /\ pc = "done" /\ ~forceReload /\ ~ignoreSubfolders
    /\ Evicted # {}

(***************************************************************************)
(* C10.  A local record whose identifier is absent from the remote         *)
(* inventory and whose file was deleted before the run is not in the       *)
(* removed category and is absent from the inventory the run persists.     *)
(***************************************************************************)
C10_ForgottenNotRemoved ==
    pc = "done" =>
        \A k \in 1..Len(db0.icons) :
            Forgotten(db0.icons[k]) =>
                /\ ~InCategory("removed", db0.icons[k].nodeId)
                /\ ~HasRecord(db, db0.icons[k].nodeId)

\* a non-forced run over a record that was removed remotely and whose file was deleted
C10_Witness ==
    /\ pc = "done" /\ ~forceReload /\ db0.state = "ok"
    /\ \E k \in 1..Len(db0.icons) : Forgotten(db0.icons[k])

(***************************************************************************)
(* C11.  Atomicity of the inventory.  As claimed: a run that fails leaves  *)
(* the inventory file exactly as it was before the run.                    *)
(***************************************************************************)
C11_Original == pc = "failed" => db = dbPrior

\* the inventory file is written by the run itself (the user's damage aside)
InventoryWritten == db' # db /\ db'.state # "malformed"

\* the only step of a run before its end that writes the inventory: the migration of
\* a well-formed old-format store when no inventory file exists
MigrationStep == Idle /\ db.state = "absent" /\ legacy = "ok" /\ legacy' = "absent"

\* the end of a run: every fetch and every resolution is done
LastStep == pc = "resolve" /\ idx > Len(iconsContents) /\ pc' = "done"

\* C11, amended: a run either completes and rewrites the inventory file with the
\* records of the items it did not drop, or fails and leaves the inventory file as it
\* was once the legacy migration at the start of the run had finished; apart from
\* that migration the inventory is written only after all fetches and all resolutions
\* of the run are done, so a failed fetch aborts the run without a write.
C11_Atomicity ==
    /\ [](pc = "failed" => db = db0)
    /\ [](pc = "done" =>
            /\ db.state = "ok"
            /\ {db.icons[k].nodeId : k \in 1..Len(db.icons)}
                 = {iconsContents[i].nodeId : i \in (1..Len(iconsContents)) \ deleted})
    /\ [][InventoryWritten => (MigrationStep \/ LastStep)]_vars

\* a run that classified an existing inventory, had content to fetch and was
\* rejected by a failed request: the inventory is the one it found
C11_Witness ==
    /\ pc = "failed" /\ thrown = "FetchError"
    /\ Len(downloadList) > 0
    /\ dbPrior.state = "ok" /\ Len(dbPrior.icons) > 0
    /\ db = dbPrior

(***************************************************************************)
(* C12.  Every advisory raised during a run is an entry of the events list *)
(* the run returns: the returned list has one entry per advisory raised,   *)
(* in order, with the advisory's kind.                                     *)
(***************************************************************************)
C12_AdvisoriesReturned ==
    pc = "done" =>
        /\ Len(output.reports) = Len(warned)
        /\ \A k \in 1..Len(warned) : output.reports[k].type = warned[k].type

(***************************************************************************)
(* C13.  Forced re-fetch overwrites.  In a run with forceReload = true     *)
(* every resolution writes the fetched content to the file of the icon's   *)
(* name, whatever the file held, drops nothing and warns of nothing; the   *)
(* completed run has dropped no icon, raised no advisory and persisted a   *)
(* record of every remote icon.                                            *)
(***************************************************************************)
C13_ForcedOverwrites ==
    /\ [][(Resolving /\ forceReload) =>
            /\ files'[SavePath(Current.name, ignoreSubfolders)] = SvgOf(Current.hash)
            /\ deleted' = deleted
            /\ warned' = warned
            /\ pc' = "resolve"]_vars
    /\ []((pc = "done" /\ forceReload) =>
            /\ deleted = {}
            /\ warned = <<>>
            /\ Len(iconsContents) = Len(remote0)
            /\ \A i \in 1..Len(remote0) : HasRecord(db, remote0[i].nodeId))

\* a completed forced run that replaced a user's file by the export of an icon
C13_Witness ==
    /\ pc = "done" /\ forceReload /\ ~ignoreSubfolders
    /\ \E i \in 1..Len(remote0) :
        /\ files0[remote0[i].name \o ".svg"] = Foreign
        /\ files[remote0[i].name \o ".svg"] = SvgOf(remote0[i].hash)

(***************************************************************************)
(* C14.  When the run is forced, or consolidateChanges finds no inventory  *)
(* file, every remote item is classified added, the other four categories  *)
(* are empty, and totalFetches is the number of remote items.              *)
(***************************************************************************)
C14_AllAdded ==
    (Classified /\ (forceReload \/ db0.state = "absent")) =>
        /\ Len(changelog.added) = Len(remote0)
        /\ \A i \in 1..Len(remote0) : changelog.added[i].nodeId = remote0[i].nodeId
        /\ \A cat \in Categories \ {"added"} : changelog[cat] = <<>>
        /\ Len(downloadList) = Len(remote0)
        /\ pc = "done" => /\ output.totalFetches = Len(remote0)
                          /\ \A cat \in Categories \ {"added"} : output.changelog[cat] = <<>>
                          /\ Len(output.changelog.added) = Len(remote0)

\* a completed forced run over an inventory that has records, with two remote items
C14_Witness ==
    /\ pc = "done" /\ forceReload
    /\ db0.state = "ok" /\ Len(db0.icons) > 0
    /\ Len(remote0) = 2
    /\ output.totalFetches = 2

(***************************************************************************)
(* C15.  Category invariant.  As claimed, for every run: each remote       *)
(* identifier, and each local identifier absent remotely whose file        *)
(* exists, is in exactly one of the five categories, and the category used *)
(* to resolve an item is the one the classifier assigned.                  *)
(***************************************************************************)
\* the run was rejected before consolidateChanges returned: by the request for the
\* frame or by the parse of the inventory (a rejected download has a download list)
RejectedAtStart == pc = "failed" /\ thrown \in FatalErrors /\ downloadList = <<>>

\* the run has a changelog
HasChangelog == Classified /\ ~RejectedAtStart

\* the local identifiers absent remotely whose file exists
LocalOnly ==
    {db0.icons[k].nodeId : k \in {j \in 1..Len(db0.icons) :
        /\ db0.icons[j].nodeId \notin RemoteIds
        /\ files0[db0.icons[j].name \o ".svg"] # NoFile}}

Occurrences(id) ==
    {<<cat, k>> \in Categories \X (1..(Len(remote0) + Len(db0.icons))) :
        k <= Len(changelog[cat]) /\ changelog[cat][k].nodeId = id}

InOneCategory(id) == Cardinality(Occurrences(id)) = 1

ResolvedAsClassified ==
    \A i \in 1..Len(iconsContents) :
        OnlyIn(TypeOf(changelog, iconsContents[i].nodeId), iconsContents[i].nodeId)

C15_Original ==
    HasChangelog =>
        /\ \A id \in RemoteIds \cup LocalOnly : InOneCategory(id)
        /\ ResolvedAsClassified

\* C15, amended: in every non-forced run that classifies, each remote identifier and
\* each local identifier absent remotely whose file exists is in exactly one category;
\* in a forced run each remote identifier is in exactly one category (added) and the
\* local identifiers absent remotely are in none; in both, the category used to
\* resolve an item is the one the classifier assigned.
C15_CategoryInvariant ==
    HasChangelog =>
        /\ \A id \in RemoteIds : InOneCategory(id)
        /\ \A id \in LocalOnly :
              IF forceReload THEN Occurrences(id) = {} ELSE InOneCategory(id)
        /\ ResolvedAsClassified

\* the resolution of a non-forced run with a remote item and a removed one
C15_Witness ==
    /\ Resolving /\ ~forceReload
    /\ LocalOnly # {}
    /\ RemoteIds # {}
    /\ TypeOf(changelog, Current.nodeId) = "removed"

(***************************************************************************)
(* C16.  Classification is independent of the order of the remote list:    *)
(* for every permutation of the remote items of a run, against the same    *)
(* inventory and directory, each category holds the same set of icons      *)
(* (identifier, name, hash, previousNames, isRenamed).                     *)
(***************************************************************************)
Permuted(list, q) == [i \in 1..Len(list) |-> list[q[i]]]

AsSet(list) == {list[k] : k \in 1..Len(list)}

C16_OrderIndependent ==
    HasChangelog =>
        \A q \in Permutations(1..Len(remote0)) :
            LET cl == ConsolidateChanges(Permuted(remote0, q), forceReload, db0, files0)
            IN  \A cat \in Categories : AsSet(cl[cat]) = AsSet(changelog[cat])

\* a non-forced run over two remote items, one added and one renamed with a record
C16_Witness ==
    /\ HasChangelog /\ ~forceReload /\ db0.state = "ok"
    /\ Len(remote0) = 2
    /\ Len(changelog.added) = 1
    /\ \E cat \in Categories \ {"added"} :
        /\ Len(changelog[cat]) = 1
        /\ changelog[cat][1].nodeId = remote0[1].nodeId
        /\ changelog[cat][1].isRenamed

(***************************************************************************)
(* C17.  Writes are additive: every asset file that exists in the output   *)
(* directory when a run starts exists at every later point of the run and  *)
(* after it, whether the run completes or is rejected.                     *)
(***************************************************************************)
C17_NoFileDeleted ==
    Classified => \A p \in AllPaths : files0[p] # NoFile => files[p] # NoFile

\* a completed run that found an item renamed: it wrote a new file, and the files
\* it found are still there
C17_Witness ==
    /\ pc = "done" /\ renames # {}
    /\ \E p \in AllPaths : files0[p] = NoFile /\ files[p] # NoFile
    /\ \E p \in AllPaths : files0[p] # NoFile /\ files[p] # NoFile

(***************************************************************************)
(* C18.  Round trip of the store.  The inventory a run writes, read back   *)
(* and formatted as the next run's classifier does, is the set of          *)
(* (identifier, name, previousNames, hash) of the icons the run persisted  *)
(* (those it did not drop), and no record of the file has a field other    *)
(* than these four: isRenamed and the content are not stored.              *)
(***************************************************************************)
Tuple(icon) == <<icon.nodeId, icon.name, icon.previousNames, icon.hash>>

C18_RoundTrip ==
    pc = "done" =>
        /\ {Tuple(FormatLocal(db.icons[k])) : k \in 1..Len(db.icons)}
             = {Tuple(iconsContents[i]) : i \in (1..Len(iconsContents)) \ deleted}
        /\ Len(db.icons) = Len(iconsContents) - Cardinality(deleted)
        /\ \A k \in 1..Len(db.icons) :
              DOMAIN db.icons[k] = {"nodeId", "name", "previousNames", "hash"}

\* a completed run that persisted a renamed icon with a previous name and its content
C18_Witness ==
    /\ pc = "done"
    /\ \E i \in (1..Len(iconsContents)) \ deleted :
        /\ iconsContents[i].isRenamed
        /\ iconsContents[i].previousNames # <<>>
        /\ iconsContents[i].svg # Undefined

(***************************************************************************)
(* C19.  In CLI mode every fatal error of a run (a failed request for the  *)
(* frame or for content, a corrupt inventory file) is printed and the      *)
(* process ends with a non-zero exit status.                               *)
(***************************************************************************)
C19_NonZeroExit ==
    (pc = "failed" /\ thrown \in FatalErrors) => (stderr = thrown /\ exitCode # 0)

(***************************************************************************)
(* C20.  Malformed inventory.  As claimed, in every run mode, forced       *)
(* re-fetch included: a run that finds _icons.json malformed fails and     *)
(* leaves the file as it was.                                              *)
(***************************************************************************)
Finished == pc \in {"done", "failed"}

C20_Original ==
    (Finished /\ dbPrior.state = "malformed") => (pc = "failed" /\ db = dbPrior)

\* C20, amended: a non-forced run that finds _icons.json malformed fails, at the
\* latest when it parses the file, and leaves the file as it was; a forced run does
\* not read the file and, when it completes, overwrites it with a well-formed
\* inventory.
C20_MalformedInventory ==
    /\ (Classified /\ ~forceReload /\ dbPrior.state = "malformed") =>
            /\ pc = "failed"
            /\ thrown \in FatalErrors
            /\ db = dbPrior
    /\ (Classified /\ forceReload /\ dbPrior.state = "malformed") =>
            /\ thrown # "SyntaxError"
            /\ pc = "done" => db.state = "ok"

\* a non-forced run over remote items that was rejected by the parse of the inventory
C20_Witness ==
    /\ pc = "failed" /\ thrown = "SyntaxError" /\ ~forceReload
    /\ db.state = "malformed"
    /\ Len(remote0) > 0

(***************************************************************************)
(* C21.  Rename without collision.  As claimed: when the remote name of an *)
(* item differs from its recorded name, the new name is not in its         *)
(* previousNames, and no file exists at the new name or the file there has *)
(* the item's content, then after the run the file at the new name and the *)
(* file at every previousNames entry (the old name included) hold the      *)
(* item's content, renamed-saved-both was raised, and the persisted record *)
(* has the new name with the old name in previousNames.                    *)
(***************************************************************************)
\* the content of an item of the run: the export if the run fetched it, else the
\* bytes of the file at its recorded name when the run started
ItemContent(id) ==
    IF \E k \in 1..Len(downloadList) : downloadList[k].nodeId = id
    THEN SvgOf(RemoteOf(id).hash)
    ELSE files0[RecordOf(db0, id).name \o ".svg"]

\* the identifiers of the run that were renamed to a name they never had
NewlyNamed ==
    IF HasChangelog /\ ~forceReload /\ db0.state = "ok"
    THEN {id \in RemoteIds :
            /\ HasRecord(db0, id)
            /\ RecordOf(db0, id).name # RemoteOf(id).name
            /\ ~Includes(RecordOf(db0, id).previousNames, RemoteOf(id).name)}
    ELSE {}

CountOf(type) == Cardinality({k \in 1..Len(warned) : warned[k].type = type})

RenameNoCollision ==
    /\ Resolving
    /\ Current.nodeId \in NewlyNamed
    /\ files0[Current.name \o ".svg"] \in {NoFile, ItemContent(Current.nodeId)}
    /\ files[Current.name \o ".svg"] \in {NoFile, ItemContent(Current.nodeId)}

PlainResolution ==
    /\ Resolving
    /\ TypeOf(changelog, Current.nodeId) # "added"
    /\ ~Current.isRenamed

Pruned == Filter(Current.previousNames,
                 {n \in Names : n # Current.name /\ files[n \o ".svg"] # NoFile})

C22_PrunedNames ==
    /\ [][PlainResolution =>
            /\ iconsContents'[idx].previousNames = Pruned
            /\ IF Pruned # <<>>
               THEN /\ Len(warned') = Len(warned) + 1
                    /\ warned'[Len(warned')].type = "rename-reminder"
               ELSE warned' = warned
            /\ pc' = "resolve"]_vars
    /\ [](pc = "done" =>
            \A i \in (1..Len(iconsContents)) \ deleted :
                /\ HasRecord(db, iconsContents[i].nodeId)
                /\ RecordOf(db, iconsContents[i].nodeId).previousNames
                     = iconsContents[i].previousNames)

\* a completed run that pruned a previous name of an item it did not fetch
C22_Witness ==
    /\ pc = "done"
    /\ \E i \in 1..Len(iconsContents) :
        /\ InCategory("unmodified", iconsContents[i].nodeId)
        /\ ~iconsContents[i].isRenamed
        /\ Len(RecordOf(db0, iconsContents[i].nodeId).previousNames) = 1
        /\ RecordOf(db, iconsContents[i].nodeId).previousNames = <<>>

(***************************************************************************)
(* C23.  An item classified unmodified and not renamed causes no write of  *)
(* an asset file: its resolution leaves the directory as it is, and a run  *)
(* in which every item is unmodified and not renamed changes no asset file *)
(* and fetches no content (totalFetches = 0).                              *)
(***************************************************************************)
AllUnmodified ==
    /\ HasChangelog
    /\ \A cat \in Categories \ {"unmodified"} : changelog[cat] = <<>>
    /\ \A k \in 1..Len(changelog.unmodified) : ~changelog.unmodified[k].isRenamed

C23_UnmodifiedNoWrite ==
    /\ [][(Resolving /\ TypeOf(changelog, Current.nodeId) = "unmodified"
                     /\ ~Current.isRenamed) => files' = files]_vars
    /\ [](AllUnmodified =>
            /\ files = files0
            /\ downloadList = <<>>
            /\ pc # "failed"
            /\ pc = "done" => output.totalFetches = 0)

\* a completed run over unmodified items only, one of which has a previous name
\* whose file holds other bytes
C23_Witness ==
    /\ pc = "done" /\ AllUnmodified
    /\ \E k \in 1..Len(changelog.unmodified) :
        \E n \in AsSet(RecordOf(db, changelog.unmodified[k].nodeId).previousNames) :
            files[n \o ".svg"] \notin {NoFile, files[changelog.unmodified[k].name \o ".svg"]}

(***************************************************************************)
(* C24.  Content is fetched exactly for the items classified added,        *)
(* modified or restored: the download list is these items, totalFetches is *)
(* their number, and the content of an unmodified or removed item is the   *)
(* bytes of a file the run found under the item's name or one of its       *)
(* previous names.                                                         *)
(***************************************************************************)
Fetched == {id \in Ids : InCategory("added", id) \/ InCategory("modified", id)
                          \/ InCategory("restored", id)}

Reused == {id \in Ids : InCategory("unmodified", id) \/ InCategory("removed", id)}

\* the icon of the changelog with this identifier
Classification(id) ==
    LET cat == TypeOf(changelog, id)
    IN  changelog[cat][FindNode(changelog[cat], id)]

\* the bytes the run found under the current or previous names of the item
OnDisk(id) ==
    {files0[n \o ".svg"] : n \in {Classification(id).name}
                                  \cup AsSet(Classification(id).previousNames)} \ {NoFile}

C24_FetchSet ==
    HasChangelog =>
        /\ {downloadList[k].nodeId : k \in 1..Len(downloadList)} = Fetched
        /\ Len(downloadList) = Cardinality(Fetched)
        /\ pc = "done" => output.totalFetches = Cardinality(Fetched)
        /\ \A i \in 1..Len(iconsContents) :
              IF iconsContents[i].nodeId \in Reused
              THEN iconsContents[i].svg \in OnDisk(iconsContents[i].nodeId)
              ELSE /\ iconsContents[i].nodeId \in Fetched
                   /\ iconsContents[i].svg = SvgOf(iconsContents[i].hash)

\* a resolution over a fetched item and an unmodified one whose file holds bytes
\* the tool did not write
C24_Witness ==
    /\ pc = "resolve"
    /\ Fetched # {}
    /\ \E i \in 1..Len(iconsContents) :
        /\ InCategory("unmodified", iconsContents[i].nodeId)
        /\ iconsContents[i].svg = Foreign

(***************************************************************************)
(* C25.  A rename collision does not apply the rename.  When the           *)
(* resolution of a renamed item finds a file with other bytes at the new   *)
(* name, the inventory keeps the record of the item under its old name,    *)
(* and the next non-forced run over the same remote inventory classifies   *)
(* the item as renamed to the same name again, with the colliding file     *)
(* still in place.                                                         *)
(***************************************************************************)
\* the resolution stopped in the branch of the rename collision
CollisionHit == pc = "failed" /\ thrown = "ReferenceError"

\* the content the run uses for an icon of the changelog
ContentOf(icon) ==
    IF icon.nodeId \in Reused THEN ReadFromDisk(files0, icon).svg ELSE SvgOf(icon.hash)

C25_RenameNotApplied ==
    /\ CollisionHit =>
          /\ HasRecord(db, Current.nodeId)
          /\ RecordOf(db, Current.nodeId) = RecordOf(db0, Current.nodeId)
          /\ RecordOf(db, Current.nodeId).name # Current.name
    /\ (HasChangelog /\ ~forceReload) =>
          \A t \in prevRun.collided :
              /\ ~InCategory("added", t[1])
              /\ Classification(t[1]).isRenamed
              /\ Classification(t[1]).name = t[2]
              /\ ~Includes(Classification(t[1]).previousNames, t[2])
              /\ files0[t[2] \o ".svg"] \notin {NoFile, ContentOf(Classification(t[1]))}

(***************************************************************************)
(* C26.  Order of resolution.  As stated: the items of a run are resolved  *)
(* in the order of their discovery in the remote inventory.  As checked:   *)
(* they are resolved category by category (unmodified, removed, added,     *)
(* modified, restored), one after the other, and the order of discovery    *)
(* is the order inside a category (the order of the inventory for the      *)
(* removed items).                                                         *)
(***************************************************************************)
IdsOf(list) == [k \in 1..Len(list) |-> list[k].nodeId]

\* the items of the list follow the order of the items of the reference
InOrderOf(list, reference) ==
    \A i, j \in 1..Len(list) :
        i < j => FindNode(reference, list[i].nodeId) < FindNode(reference, list[j].nodeId)

\* the remote items of the resolution list
RemoteItems == Filter(IdsOf(iconsContents), RemoteIds)

C26_Original ==
    pc = "resolve" =>
        \A i, j \in 1..Len(RemoteItems) :
            i < j => FindNode(remote0, RemoteItems[i]) < FindNode(remote0, RemoteItems[j])

C26_ResolutionOrder ==
    /\ [](pc = "resolve" =>
            IdsOf(iconsContents) = IdsOf(changelog.unmodified \o changelog.removed
                                         \o changelog.added \o changelog.modified
                                         \o changelog.restored))
    /\ [](HasChangelog =>
            /\ \A cat \in Categories \ {"removed"} : InOrderOf(changelog[cat], remote0)
            /\ InOrderOf(changelog.removed, db0.icons))
    /\ [][(Resolving /\ pc' = "resolve") =>
            /\ idx' = idx + 1
            /\ \A i \in 1..Len(iconsContents) :
                  i # idx => iconsContents'[i] = iconsContents[i]]_vars

\* the second remote item is unmodified and is resolved before the first one, which
\* was fetched; both write the file of one name
C26_Witness ==
    /\ pc = "resolve" /\ idx = 1
    /\ Len(remote0) = 2 /\ Len(iconsContents) = 2
    /\ iconsContents[1].nodeId = remote0[2].nodeId
    /\ iconsContents[2].nodeId = remote0[1].nodeId
    /\ InCategory("unmodified", remote0[2].nodeId)
    /\ remote0[1].nodeId \in Fetched
    /\ ({iconsContents[1].name} \cup AsSet(iconsContents[1].previousNames))
         \cap ({iconsContents[2].name} \cup AsSet(iconsContents[2].previousNames)) # {}

(***************************************************************************)
(* C27.  Legacy migration.  The start of a run migrates only when _icons.js *)
(* exists and _icons.json does not: a well-formed old store becomes the    *)
(* inventory and is removed; a damaged one leaves both stores as they were *)
(* and the run goes on as a first run, with every remote item added; when  *)
(* _icons.json exists neither file is touched.                             *)
(***************************************************************************)
\* the step that starts a run
RunStarts == Idle /\ nRuns' = nRuns + 1

\* the run goes on as a run without inventory: every remote item is added
AsFirstRun ==
    /\ \A cat \in Categories \ {"added"} : changelog'[cat] = <<>>
    /\ IdsOf(changelog'.added) = IdsOf(remote)

C27_LegacyMigration ==
    [][RunStarts =>
        IF legacy # "absent" /\ db.state = "absent"
        THEN IF legacy = "ok"
             THEN /\ db' = [state |-> "ok", icons |-> LegacyIcons]
                  /\ legacy' = "absent"
             ELSE /\ db' = db /\ legacy' = legacy
                  /\ pc' # "failed" => AsFirstRun
        ELSE db' = db /\ legacy' = legacy]_vars

\* a completed run that found a damaged old store and no inventory
C27_Witness ==
    /\ pc = "done" /\ ~forceReload
    /\ legacy = "damaged" /\ dbPrior.state = "absent"
    /\ output.changelog.added # <<>>

(***************************************************************************)
(* Component discovery: findComponentsRecursively over the children of the *)
(* frame.  A node is [id, type, visible, name, fillGeometry, children]; a  *)
(* name is the sequence of its characters.                                 *)
(***************************************************************************)
MaxDepth == 3

NodeTypes == {"COMPONENT", "COMPONENT_SET", "FRAME"}

\* the property visible of a node: the API leaves it out unless it is false
Visibility == {"absent", "false"}

\* the layer names the designer gave: 'A b' and 's/t'
LayerNames == {<<"A", " ", "b">>, <<"s", "/", "t">>}

RECURSIVE Chains(_)
\* the unlabelled nodes with at most one child and at most d levels below them; the
\* children of a component set are components, its variants
Chains(d) ==
    {n \in [type : NodeTypes, visible : Visibility, name : LayerNames,
            children : IF d = 0 THEN {<<>>} ELSE {<<>>} \cup {<<c>> : c \in Chains(d - 1)}] :
        n.type = "COMPONENT_SET" =>
            \A k \in 1..Len(n.children) : n.children[k].type = "COMPONENT"}

RECURSIVE Labelled(_, _)
\* the nodes with their identifiers, which are their positions in the document
Labelled(nodes, prefix) ==
    [i \in 1..Len(nodes) |->
        [id |-> Append(prefix, i), type |-> nodes[i].type, visible |-> nodes[i].visible,
         name |-> nodes[i].name, fillGeometry |-> "g",
         children |-> Labelled(nodes[i].children, Append(prefix, i))]]

\* the documents of the model: a chain of MaxDepth nodes, alone or before a leaf
Documents ==
    {Labelled(d, <<>>) :
        d \in {<<>>} \cup {<<n>> : n \in Chains(MaxDepth - 1)}
              \cup {<<n, m>> : n \in Chains(MaxDepth - 1), m \in Chains(0)}}

\* String.prototype.toLowerCase, over the characters of the model
ToLowerCase(name) == [i \in 1..Len(name) |-> IF name[i] = "A" THEN "a" ELSE name[i]]

\* .replace(/\s/g, '-')
Dashed(name) == [i \in 1..Len(name) |-> IF name[i] = " " THEN "-" ELSE name[i]]

\* .replace(/=/g, '_')
Underscored(name) == [i \in 1..Len(name) |-> IF name[i] = "=" THEN "_" ELSE name[i]]

\* slugify(name, { ignore: ['/'] }), for names without two adjacent replaced characters
\* and without one at an end: a character is kept if it is allowed or ignored, and is
\* replaced by the separator otherwise
Slugify(name) ==
    [i \in 1..Len(name) |->
        IF name[i] \in {"a", "b", "s", "t", "-", "_", "/"} THEN name[i] ELSE "-"]

RECURSIVE VectorData(_, _)
\* calcIconHash(contents, recursively): the data the hash is the digest of
VectorData(contents, recursively) ==
    LET RECURSIVE OfChildren(_)
        OfChildren(k) ==
            IF k > Len(contents.children) THEN <<>>
            ELSE <<contents.children[k].fillGeometry>>
                 \o VectorData(contents.children[k], TRUE) \o OfChildren(k + 1)
    IN  (IF recursively THEN <<>> ELSE <<contents.fillGeometry>>) \o OfChildren(1)

\* the item of a component that is below a component set
InSet(componentSetName, value) ==
    [name |-> componentSetName \o <<"_", "_">>
                \o Slugify(Underscored(ToLowerCase(value.name))),
     nodeId |-> value.nodeId, hash |-> value.hash]

RECURSIVE FindComponentsIntoComponents(_)
\* mutant: the children of a component are searched as well
FindComponentsIntoComponents(nodes) ==
    IF nodes = <<>> THEN <<>>
    ELSE LET frame == Head(nodes)
             found ==
                 IF frame.visible = "false" THEN <<>>
                 ELSE IF frame.type = "COMPONENT"
                 THEN <<[name |-> Slugify(Dashed(ToLowerCase(frame.name))),
                         nodeId |-> frame.id, hash |-> VectorData(frame, FALSE)]>>
                      \o FindComponentsIntoComponents(frame.children)
                 ELSE IF frame.type = "COMPONENT_SET"
                 THEN LET componentSetName == Slugify(Dashed(ToLowerCase(frame.name)))
                          children == FindComponentsIntoComponents(frame.children)
                      IN  [k \in 1..Len(children) |-> InSet(componentSetName, children[k])]
                 ELSE FindComponentsIntoComponents(frame.children)
         IN  found \o FindComponentsIntoComponents(Tail(nodes))

RECURSIVE FindComponentsRecursively(_)
\* findComponentsRecursively(frameContents)
FindComponentsRecursively(nodes) ==
    IF nodes = <<>> THEN <<>>
    ELSE LET frame == Head(nodes)
             found ==
                 IF frame.visible = "false" THEN <<>>
                 ELSE IF frame.type = "COMPONENT"
                 THEN <<[name |-> Slugify(Dashed(ToLowerCase(frame.name))),
                         nodeId |-> frame.id, hash |-> VectorData(frame, FALSE)]>>
                 ELSE IF frame.type = "COMPONENT_SET"
                 THEN LET componentSetName == Slugify(Dashed(ToLowerCase(frame.name)))
                          children == FindComponentsRecursively(frame.children)
                      IN  [k \in 1..Len(children) |-> InSet(componentSetName, children[k])]
                 ELSE FindComponentsRecursively(frame.children)
         IN  found \o FindComponentsRecursively(Tail(nodes))

\* a frame was read: any document of the model
FrameRead == Constructed /\ frameContents \in Documents

\* const iconsList = this.findComponentsRecursively(frameContents)
Discover ==
    /\ pc = "idle"
    /\ discovered' = FindComponentsRecursively(frameContents)
    /\ pc' = "scanned"
    /\ UNCHANGED <<remote, files, db, legacy, ignoreSubfolders, forceReload, changelog,
                   iconsContents, deleted, downloadList, idx, warned, thrown, eventsList,
                   output, db0, dbPrior, stderr, exitCode, files0, remote0, renames,
                   prevRun, nRuns, nEdits, frameContents>>

SpecDiscovery == FrameRead /\ [][Discover]_vars

(***************************************************************************)
(* C28.  Discovery returns one item per COMPONENT node that is visible and *)
(* reached from the root through visible nodes, at any depth, and nothing  *)
(* else: no component below an invisible node and no child of a component. *)
(* A component that is a child of a component set is named                 *)
(* '<setName>__<childName>', any other component by its own name.          *)
(***************************************************************************)
RECURSIVE NodeAt(_, _)
NodeAt(nodes, path) ==
    IF Len(path) = 1 THEN nodes[path[1]]
    ELSE NodeAt(nodes[path[1]].children, Tail(path))

RECURSIVE PathsOf(_, _)
PathsOf(nodes, prefix) ==
    UNION {{Append(prefix, i)} \cup PathsOf(nodes[i].children, Append(prefix, i)) :
            i \in 1..Len(nodes)}

\* the nodes above the node at the path, the outermost first
Above(path) == [k \in 1..(Len(path) - 1) |-> NodeAt(frameContents, SubSeq(path, 1, k))]

\* a visible component whose ancestors are all visible and no components
Reachable(path) ==
    /\ NodeAt(frameContents, path).type = "COMPONENT"
    /\ NodeAt(frameContents, path).visible # "false"
    /\ \A k \in 1..(Len(path) - 1) :
        /\ Above(path)[k].visible # "false"
        /\ Above(path)[k].type # "COMPONENT"

Scanned == pc = "scanned"

SlugOf(node) == Slugify(Dashed(ToLowerCase(node.name)))

\* the component is a child of a component set
InComponentSet(path) == Len(path) > 1 /\ Above(path)[Len(path) - 1].type = "COMPONENT_SET"

OneItemPerComponent ==
    /\ {discovered[k].nodeId : k \in 1..Len(discovered)}
         = {p \in PathsOf(frameContents, <<>>) : Reachable(p)}
    /\ \A j, k \in 1..Len(discovered) : discovered[j].nodeId = discovered[k].nodeId => j = k

C28_Discovery ==
    Scanned =>
        /\ OneItemPerComponent
        /\ \A k \in 1..Len(discovered) :
            LET path == discovered[k].nodeId
            IN  discovered[k].name =
                    IF InComponentSet(path)
                    THEN SlugOf(Above(path)[Len(path) - 1]) \o <<"_", "_">>
                            \o SlugOf(NodeAt(frameContents, path))
                    ELSE SlugOf(NodeAt(frameContents, path))

\* a visible frame holds a component set whose component is returned under the name
\* of the set, next to an invisible component that is not returned
C28_Witness ==
    /\ Scanned
    /\ Len(frameContents) = 2
    /\ frameContents[1].type = "FRAME" /\ frameContents[1].visible = "absent"
    /\ frameContents[2].type = "COMPONENT" /\ frameContents[2].visible = "false"
    /\ Len(discovered) = 1
    /\ discovered[1].nodeId = <<1, 1, 1>>
    /\ discovered[1].name = <<"s", "/", "t", "_", "_", "a", "-", "b">>

(***************************************************************************)
(* C29.  A renamed item is never filled with the content of another file.  *)
(* When the item being resolved is unmodified, its remote name differs     *)
(* from its recorded name, and a file with bytes other than those of the   *)
(* item's own file exists at the new name, the resolution leaves the file  *)
(* at the old name with the item's content, writes no other bytes under    *)
(* the item's names, and warns renamed-unable-to-save.                     *)
(***************************************************************************)
\* the recorded name of the item being resolved
OldName == RecordOf(db0, Current.nodeId).name

UnmodifiedRenameCollision ==
    /\ Resolving
    /\ ~forceReload /\ ~ignoreSubfolders
    /\ InCategory("unmodified", Current.nodeId)
    /\ OldName # Current.name
    /\ ~Includes(RecordOf(db0, Current.nodeId).previousNames, Current.name)
    /\ files[OldName \o ".svg"] # NoFile
    /\ files[Current.name \o ".svg"] \notin {NoFile, files[OldName \o ".svg"]}

C29_RenameKeepsContent ==
    [][UnmodifiedRenameCollision =>
        /\ files'[OldName \o ".svg"] = files[OldName \o ".svg"]
        /\ \A n \in {Current.name} \cup AsSet(Current.previousNames) :
              files'[n \o ".svg"] \in {files[n \o ".svg"], files[OldName \o ".svg"]}
        /\ Len(warned') = Len(warned) + 1
        /\ warned'[Len(warned')].type = "renamed-unable-to-save"]_vars

(***************************************************************************)
(* C30.  Convergence.  A non-forced run that immediately follows a         *)
(* completed non-forced run without unable-to-save advisory, over the same *)
(* remote inventory and the same files, classifies every remote item as    *)
(* unmodified and fetches nothing, with and without ignoreSubfolders.      *)
(***************************************************************************)
Converged ==
    /\ \A cat \in Categories \ {"unmodified", "removed"} : output.changelog[cat] = <<>>
    /\ Len(output.changelog.unmodified) = Len(remote0)
    /\ output.totalFetches = 0

C30_Convergence ==
    (Consecutive /\ ~forceReload /\ ~prevRun.forceReload /\ ~prevRun.unableToSave)
        => Converged

(***************************************************************************)
(* C31.  For every item of a non-forced run, the path tested for existence *)
(* and compared for a collision is the path saveIcon writes the item to;   *)
(* an added item never overwrites an existing file of other content at the *)
(* path it is saved to (with ignoreSubfolders, 's_t.svg' for the name      *)
(* 's/t') without an unable-to-save advisory.                              *)
(***************************************************************************)
\* the item being resolved is an added item of a non-forced run
AddedResolution ==
    /\ Resolving
    /\ ~forceReload
    /\ TypeOf(changelog, Current.nodeId) = "added"

\* the bytes at the path saveIcon writes the item being resolved to
AtSavePath(fs) == fs[SavePath(Current.name, ignoreSubfolders)]

C31_SamePath ==
    /\ []((Resolving /\ ~forceReload) =>
            FilePath(Current.name) = SavePath(Current.name, ignoreSubfolders))
    /\ [][(AddedResolution /\ AtSavePath(files) \notin {NoFile, Current.svg}) =>
            /\ AtSavePath(files') = AtSavePath(files)
            /\ Len(warned') = Len(warned) + 1
            /\ warned'[Len(warned')].type = "unable-to-save"]_vars

(***************************************************************************)
(* C32.  A run that fails, for whatever reason, leaves every asset file of *)
(* the output directory with the bytes it had when the run started.        *)
(***************************************************************************)
C32_FailedRunKeepsFiles == pc = "failed" => files = files0

(***************************************************************************)
(* C33.  Within a run no asset file is written before every content fetch  *)
(* of the run has completed: the run writes a file only in the resolution  *)
(* loop, when the content of every item of the download list is there, so  *)
(* a run rejected by a failed fetch leaves all asset files unchanged.      *)
(***************************************************************************)
\* a step of the run (not of the designer or the user) that changes an asset file
RunWrites == files' # files /\ nEdits' = nEdits

\* downloadAndCleanIcons has returned the content of every item of the download list
AllFetched ==
    \A k \in 1..Len(downloadList) :
        \E i \in 1..Len(iconsContents) :
            /\ iconsContents[i].nodeId = downloadList[k].nodeId
            /\ iconsContents[i].svg = SvgOf(downloadList[k].hash)

C33_NoWriteBeforeFetch ==
    /\ [][RunWrites => (pc = "resolve" /\ AllFetched)]_vars
    /\ [](pc = "download" => files = files0)
    /\ []((pc = "failed" /\ thrown = "FetchError") => files = files0)

\* a run over a directory with files that had a renamed item to save from disk and
\* content to fetch, and was rejected by the failed fetch: no file was written
C33_Witness ==
    /\ pc = "failed" /\ thrown = "FetchError"
    /\ Len(downloadList) > 0
    /\ \E i \in 1..Len(iconsContents) : iconsContents[i].isRenamed
    /\ \E p \in AllPaths : files0[p] # NoFile
    /\ files = files0

(***************************************************************************)
(* C34.  Removed items are retained.  As claimed: in every non-forced run  *)
(* a local record whose identifier is absent remotely and whose file       *)
(* exists at its recorded name is listed in removed, is persisted again    *)
(* with the same identifier, name and hash, and the bytes of the file at   *)
(* its recorded name are the same after the run as before it.              *)
(***************************************************************************)
\* the identifiers of the run to retain
Retained == IF HasChangelog /\ ~forceReload /\ db0.state = "ok" THEN LocalOnly ELSE {}

\* the completed run has persisted the record with its identifier, name and hash
PersistedAgain(id) ==
    /\ HasRecord(db, id)
    /\ RecordOf(db, id).name = RecordOf(db0, id).name
    /\ RecordOf(db, id).hash = RecordOf(db0, id).hash
    /\ Cardinality({k \in 1..Len(db.icons) : db.icons[k].nodeId = id}) = 1

\* the file at the recorded name has the bytes it had when the run started
FileKept(id) ==
    files[FilePath(RecordOf(db0, id).name)] = files0[FilePath(RecordOf(db0, id).name)]

C34_Original ==
    \A id \in Retained :
        /\ OnlyIn("removed", id)
        /\ pc = "done" => (PersistedAgain(id) /\ FileKept(id))

\* another item of the run has the recorded name of the item as its name or as one
\* of its previous names
SharesName(id) ==
    \E i \in 1..Len(iconsContents) :
        /\ iconsContents[i].nodeId # id
        /\ RecordOf(db0, id).name \in {Classification(iconsContents[i].nodeId).name}
                \cup AsSet(Classification(iconsContents[i].nodeId).previousNames)

\* C34, amended: such a record is listed in removed and is persisted again with the
\* same identifier, name and hash; its resolution leaves the file at its recorded
\* name with the bytes it had when the run started, and so does the run unless
\* another item of the run has that name as its name or as one of its previous
\* names: an item that is saved under its names without a collision test (a
\* modified or restored item, a renamed item) then overwrites the file.
C34_RemovedRetained ==
    /\ [](\A id \in Retained :
            /\ OnlyIn("removed", id)
            /\ pc = "done" => PersistedAgain(id)
            /\ ~SharesName(id) => FileKept(id))
    /\ [][(Resolving /\ Current.nodeId \in Retained) =>
            /\ files'[FilePath(Current.name)] = files0[FilePath(Current.name)]
            /\ pc' = "resolve"]_vars

\* a completed run that fetched an item and retained a removed one whose file holds
\* bytes the tool did not write
C34_Witness ==
    /\ pc = "done"
    /\ downloadList # <<>>
    /\ \E id \in Retained :
        /\ PersistedAgain(id)
        /\ files0[FilePath(RecordOf(db0, id).name)] = Foreign
        /\ FileKept(id)

(***************************************************************************)
(* C35.  A forced run rebuilds the inventory from the remote inventory     *)
(* alone: the inventory a completed forced run persists has exactly one    *)
(* record per remote item, with the name and hash of the item and an empty *)
(* previousNames list, and no record of an identifier absent remotely,     *)
(* whatever the inventory and the files were before.                       *)
(***************************************************************************)
\* the records of the inventory with this identifier
RecordsOf(dbFile, id) == {k \in 1..Len(dbFile.icons) : dbFile.icons[k].nodeId = id}

C35_ForcedRebuild ==
    (pc = "done" /\ forceReload) =>
        /\ db.state = "ok"
        /\ \A i \in 1..Len(remote0) :
              /\ Cardinality(RecordsOf(db, remote0[i].nodeId)) = 1
              /\ RecordOf(db, remote0[i].nodeId) =
                    [nodeId |-> remote0[i].nodeId, name |-> remote0[i].name,
                     previousNames |-> <<>>, hash |-> remote0[i].hash]
        /\ \A k \in 1..Len(db.icons) : db.icons[k].nodeId \in RemoteIds

\* a completed forced run over an inventory that had a record with a previous name
\* for a remote item and over a file of other bytes at the name of a remote item
C35_Witness ==
    /\ pc = "done" /\ forceReload
    /\ dbPrior.state = "ok"
    /\ \E id \in RemoteIds :
        /\ HasRecord(dbPrior, id)
        /\ RecordOf(dbPrior, id).previousNames # <<>>
        /\ RecordOf(db, id).previousNames = <<>>
    /\ \E p \in AllPaths : files0[p] = Foreign

(***************************************************************************)
(* C36.  Every filename listed under added in the changelog a run returns  *)
(* is the file of an item the run saved and persisted: the item was not    *)
(* dropped and has a record in the inventory; the file of an item dropped  *)
(* with unable-to-save is not listed under added.                          *)
(***************************************************************************)
\* the positions in the resolution list of the items classified added
AddedAt == {i \in 1..Len(iconsContents) : InCategory("added", iconsContents[i].nodeId)}

C36_AddedWereSaved ==
    pc = "done" =>
        /\ output.changelog.added = MapSeq(changelog.added, FileName)
        /\ \A i \in AddedAt :
              Includes(output.changelog.added, FileName(iconsContents[i])) =>
                  /\ i \notin deleted
                  /\ HasRecord(db, iconsContents[i].nodeId)
        /\ \A i \in deleted :
              ~Includes(output.changelog.added, FileName(iconsContents[i]))

(***************************************************************************)
(* C37.  When two added items of a non-forced run have the same name, at   *)
(* which no file exists when the run starts, and different content, the    *)
(* one resolved first is written and persisted; the other raises           *)
(* unable-to-save, does not overwrite the file of the first, gets no       *)
(* record, and is classified added again by the next run.                  *)
(***************************************************************************)
\* the items at i and j are added, i is resolved before j, and they have one name,
\* free when the run starts, and different content
SameNameAdded(i, j) ==
    /\ i \in AddedAt /\ j \in AddedAt /\ i < j
    /\ iconsContents[i].name = iconsContents[j].name
    /\ iconsContents[i].hash # iconsContents[j].hash
    /\ files0[FilePath(iconsContents[i].name)] = NoFile

\* what the next non-forced run over the same frame classifies as added
AddedNext == ConsolidateChanges(remote0, FALSE, db, files).added

C37_SecondIsDropped ==
    (pc = "done" /\ ~forceReload) =>
        \A i, j \in 1..Len(iconsContents) :
            SameNameAdded(i, j) =>
                /\ i \notin deleted
                /\ HasRecord(db, iconsContents[i].nodeId)
                /\ files[SavePath(iconsContents[i].name, ignoreSubfolders)]
                      = SvgOf(iconsContents[i].hash)
                /\ j \in deleted
                /\ WasWarned("unable-to-save")
                /\ ~HasRecord(db, iconsContents[j].nodeId)
                /\ FindNode(AddedNext, iconsContents[j].nodeId) # 0

(***************************************************************************)
(* C38.  The identifier is the primary key of the inventory.  The remote   *)
(* inventory having no two items of one identifier, the inventory file has *)
(* at most one record per identifier after any sequence of runs.           *)
(***************************************************************************)
C38_OneRecordPerId ==
    NoDuplicates(IdsOf(remote)) =>
        \A id \in Ids : Cardinality(RecordsOf(db, id)) <= 1

\* the inventory after a second run that retained a removed item next to a remote
\* item of the same name
C38_Witness ==
    /\ pc = "done" /\ nRuns >= 2
    /\ Len(db.icons) = 2
    /\ db.icons[1].name = db.icons[2].name
    /\ \E k \in 1..2 : db.icons[k].nodeId \notin RemoteIds

====
